---- MODULE Spec2Model ----
(***************************************************************************)
(* raw2database: the connection lifecycle and the file-to-table ingestion  *)
(* of PostgresHandler, in its two variants:                                *)
(*   "database_handler"  src/src/database/database_handler.py              *)
(*   "handler"           src/src/database/handler.py                       *)
(* One handler object is modelled; the variant is fixed at construction.   *)
(* create_engine, Engine.connect, Engine.dispose, read_csv/read_json and   *)
(* DataFrame.to_sql are library calls whose success depends on the         *)
(* environment: each call either returns or throws.                        *)
(***************************************************************************)
EXTENDS Integers, Sequences, FiniteSets, TLC

\* ---------------------------------------------------------------- bounds
MaxEngines   == 2      \* engines one handler creates in a behaviour
MaxRetries   == 2      \* largest max_retries passed to connect

\* ------------------------------------------------------------ constants
None == "None"
NoEngine == 0          \* self.engine is None

Fields == {"DB_USER", "DB_PASSWORD", "DB_HOST", "DB_PORT", "DB_NAME"}

\* a configuration mapping: every key is a non-empty string ("v"), the
\* empty string, or absent (dict.get returns None)
FullConfig == [f \in Fields |-> "v"]

ConfigFiles ==
    {FullConfig}
      \cup {[FullConfig EXCEPT !["DB_USER"] = ""], [FullConfig EXCEPT !["DB_NAME"] = None]}

\* not all([db_user, db_password, db_host, db_port, db_name])
Truthy(v) == v # None /\ v # ""

\* any() written for all()
AnyFieldPresent(conf) == \E f \in Fields : Truthy(conf[f])

AllFieldsPresent(conf) == \A f \in Fields : Truthy(conf[f])

\* an Optional[Dict]: <<>> is None, <<conf>> is the mapping conf
NoConfig == <<>>
Loaded(conf) == <<conf>>
ConfigOf(opt) == opt[1]

RetryChoices == (0 - 1)..MaxRetries

\* logging.getLogger("Generic_Logger"), the logger BasicLogger hands out
DefaultLogger == "Generic_Logger"

\* what an exception carries besides its type: the numbers its message
\* names and the exception it was raised from, each <<>> when there is none
ErrorInfo(count, cause) == [count |-> count, cause |-> cause]
NoInfo == ErrorInfo(<<>>, <<>>)

EngineIds == 1..MaxEngines

\* ------------------------------------------------------- tabular data
\* a cell is <<>> (NaN / None) or <<value>>; a row maps every column to a
\* cell; a DataFrame has a dtype per column and a sequence of rows
Null == <<>>
Columns == {"n", "s"}

Row(n, s) == [c \in Columns |-> IF c = "n" THEN n ELSE s]

Frame(n_dtype, rows) ==
    [dtype |-> [c \in Columns |-> IF c = "n" THEN n_dtype ELSE "object"],
     rows |-> rows]

CategoryThreshold == 10

\* a duplicate pair, a missing number, a missing string, and a row that
\* equals another one once the missing number is filled
SmallFrame ==
    Frame("float64", << Row(<<1>>, <<"x">>), Row(<<1>>, <<"x">>),
                        Row(Null, <<"y">>), Row(<<0>>, <<"y">>),
                        Row(<<2>>, Null) >>)

\* nothing missing, nothing repeated
CleanFrame == Frame("int64", << Row(<<2>>, <<"y">>), Row(<<3>>, <<"z">>) >>)

\* CategoryThreshold distinct strings, and a missing string next to the
\* fill value
WideFrame ==
    Frame("int64",
          [i \in 1..(CategoryThreshold - 1) |-> Row(<<i>>, <<ToString(i)>>)]
            \o << Row(<<1>>, <<"No Answer">>), Row(<<1>>, Null) >>)

\* a directory entry: the file name split at its dots, whether read_csv /
\* read_json returns for it, and the DataFrame it then returns
File(name, parses, df) == [name |-> name, parses |-> parses, df |-> df]

FileSamples ==
    { File(<<"a", "csv">>, TRUE, SmallFrame),
      File(<<"a", "b", "csv">>, TRUE, WideFrame),
      File(<<"b", "csv">>, TRUE, CleanFrame),
      File(<<"bad", "csv">>, FALSE, CleanFrame),
      File(<<"b", "json">>, TRUE, CleanFrame),
      File(<<"notes", "txt">>, TRUE, CleanFrame) }

Extensions == {"csv", "json", "txt"}

MaxFiles == 2          \* entries of the directory of one run

\* the directories a run is given: no name twice
Directories ==
    {dir \in SUBSET FileSamples :
        /\ Cardinality(dir) <= MaxFiles
        /\ \A f, g \in dir : f.name = g.name => f = g}

\* file_name.split(".")[0]
TableNameOf(name) == name[1]

TableNames == {TableNameOf(f.name) : f \in FileSamples}

\* a table of the database: <<>> when it does not exist, else <<rows>>
Absent == <<>>
Present(rows) == <<rows>>
EmptyDb == [t \in TableNames |-> Absent]

\* what a run of files2tables saw and did: how many files it discovered,
\* how many of them can and cannot be read, whether their extension has a
\* reader, and the tables it wrote
NoFiles == [found |-> 0, readable |-> 0, unreadable |-> 0, supported |-> TRUE]
NoRun == [discovered |-> NoFiles, written |-> <<>>]

VARIABLES
    variant,             \* which module the handler class comes from
    configuration_data,  \* database_handler.py: self.configuration_data
    db_configuration,    \* handler.py: self.db_configuration
    engine,              \* self.engine (NoEngine or an engine id)
    nextEngine,          \* engines 1..nextEngine-1 were returned by create_engine
    disposals,           \* per engine: was dispose() never, once or again completed
    pc,                  \* position of the single caller thread
    caller,              \* public method that is executing
    max_retries,         \* argument of the running connect
    retries,             \* local of the retry loop
    local_engine,        \* local `engine` of _try_to_connect_n_times
    response,            \* local `response` of handler.py connect
    attempts,            \* create_engine / Engine.connect calls of the running call
    engine_at_call,      \* self.engine when the running call began
    tables,              \* the database: table name -> rows
    discovered,          \* files2tables: count of the files the run discovered
    files_as_dataframes, \* files2tables: the (name, DataFrame) items still to write
    written,             \* files2tables: the (name, rows) written so far in the run
    outcome,             \* how the last completed call ended
    path2config,         \* database_handler.py: self.path2config
    app_logger,          \* self.app_logger
    given,               \* the arguments of the call under study
    returned             \* what the successive calls under study returned

vars == <<path2config, app_logger, given, returned, variant, configuration_data, db_configuration, engine, nextEngine,
          disposals, pc, caller, max_retries, retries, local_engine, response,
          attempts, engine_at_call, tables, discovered,
          files_as_dataframes, written, outcome>>

conn_locals == <<caller, max_retries, retries, local_engine, response, attempts,
                 engine_at_call>>

run_locals == <<discovered, files_as_dataframes, written>>

\* the fields a handler gets at construction and keeps
construction == <<path2config, app_logger>>

\* a function applied on its own: its arguments and its results
applied == <<given, returned>>

\* engines created by the handler, and those created and not yet disposed
Created == 1..(nextEngine - 1)
Alive == {e \in Created : disposals[e] = "never"}

\* how a call ended: the method, its result (a returned value or the
\* exception raised), its last log line, and what the call did: the
\* max_retries it was given, the create_engine / Engine.connect calls it
\* made, the engine stored when it began, the engine it created; for
\* files2tables the run, the table whose write threw and the items left;
\* for setup the mapping read from the file; for an exception what it carries
Outcome(op, result, log, n, k, before, new) ==
    [op |-> op, result |-> result, log |-> log, max_retries |-> n,
     attempts |-> k, engine_before |-> before, created |-> new,
     run |-> NoRun, failed |-> None, pending |-> 0,
     read |-> NoConfig, error |-> NoInfo]

\* a handler right after its construction
Constructed ==
    /\ variant \in {"database_handler", "handler"}
    /\ configuration_data = NoConfig
    /\ db_configuration \in (IF variant = "handler"
                             THEN {Loaded(conf) : conf \in ConfigFiles}
                             ELSE {NoConfig})
    /\ engine = NoEngine
    /\ nextEngine = 1
    /\ disposals = [e \in EngineIds |-> "never"]
    /\ pc = "idle"
    /\ caller = None
    /\ max_retries = 0
    /\ retries = 0
    /\ local_engine = NoEngine
    /\ response = FALSE
    /\ attempts = 0
    /\ engine_at_call = NoEngine
    /\ tables = EmptyDb
    /\ discovered = NoFiles
    /\ files_as_dataframes = <<>>
    /\ written = <<>>
    /\ outcome = Outcome("__init__", "ok", None, 0, 0, NoEngine, NoEngine)
    /\ path2config = IF variant = "handler" THEN None ELSE "config.json"
    /\ app_logger = DefaultLogger

Init ==
    /\ Constructed
    /\ given = None
    /\ returned = <<>>

\* return to the caller, the call ending as `ended`: the frame's locals
\* are gone
Returning(ended) ==
    /\ pc' = "idle"
    /\ caller' = None
    /\ max_retries' = 0
    /\ retries' = 0
    /\ local_engine' = NoEngine
    /\ response' = FALSE
    /\ attempts' = 0
    /\ engine_at_call' = NoEngine
    /\ outcome' = ended
    /\ UNCHANGED <<tables, run_locals>>

Return(op, result, log) ==
    Returning(Outcome(op, result, log, max_retries, attempts, engine_at_call,
                      local_engine))

\* a call that ends inside its first step
ReturnAtOnce(op, result, log) ==
    /\ UNCHANGED <<pc, conn_locals, tables, run_locals>>
    /\ outcome' = Outcome(op, result, log, 0, 0, engine, NoEngine)

\* ------------------------------------------ database_handler.py: setup
\* BaseDatabaseHandler.setup: read the configuration file, store the mapping
ReadErrors == {"FileNotFoundError", "ValueError"}

\* the configuration replaced by a full default mapping
StoredDefaults(read) == Loaded(FullConfig)

\* self.configuration_data = self._read_config_from_file()
StoredConfiguration(read) == Loaded(read)

DH_setup ==
    /\ variant = "database_handler"
    /\ pc = "idle"
    /\ \/ \E err \in ReadErrors :               \* _read_config_from_file raises
             /\ UNCHANGED configuration_data
             /\ ReturnAtOnce("setup", err, None)
       \/ \E read \in ConfigFiles :
             /\ configuration_data' = StoredConfiguration(read)
             /\ UNCHANGED <<pc, conn_locals, tables, run_locals>>
             /\ outcome' = [Outcome("setup", "ok", None, 0, 0, engine, NoEngine)
                            EXCEPT !.read = Loaded(read)]
    /\ UNCHANGED <<construction, applied, variant, db_configuration, engine, nextEngine, disposals>>

\* ---------------------------------------- database_handler.py: connect
\* a configuration never loaded taken for a complete one
ConnectPrecheckSkipped(opt) ==
    IF opt # NoConfig /\ ~AllFieldsPresent(ConfigOf(opt)) THEN "ValueError" ELSE "ok"

\* self.configuration_data.get(...) on None raises AttributeError; then
\* if not all([...]): raise ValueError
ConnectPrecheck(opt) ==
    IF opt = NoConfig THEN "AttributeError"
    ELSE IF ~AllFieldsPresent(ConfigOf(opt)) THEN "ValueError" ELSE "ok"

DH_connect ==
    /\ variant = "database_handler"
    /\ pc = "idle"
    /\ \E n \in RetryChoices :
        IF ConnectPrecheck(configuration_data) # "ok"
        THEN ReturnAtOnce("connect", ConnectPrecheck(configuration_data), None)
        ELSE /\ pc' = "try_to_connect"
             /\ caller' = "connect"
             /\ max_retries' = n
             /\ retries' = 0
             /\ local_engine' = NoEngine
             /\ attempts' = 0
             /\ engine_at_call' = engine
             /\ UNCHANGED <<response, outcome, tables, run_locals>>
    /\ UNCHANGED <<construction, applied, variant, configuration_data, db_configuration, engine,
                   nextEngine, disposals>>

\* the loop test off by one: retries <= max_retries
LoopConditionInclusive == retries <= max_retries

\* while retries < max_retries
LoopCondition == retries < max_retries

\* one pass of the loop body of _try_to_connect_n_times
DH_try_to_connect_attempt ==
    /\ pc = "try_to_connect"
    /\ LoopCondition
    /\ attempts' = attempts + 1
    /\ \/ /\ nextEngine <= MaxEngines          \* create_engine returns: break
          /\ local_engine' = nextEngine
          /\ nextEngine' = nextEngine + 1
          /\ pc' = "after_loop"
          /\ UNCHANGED retries
       \/ /\ retries' = retries + 1            \* create_engine throws
          /\ UNCHANGED <<local_engine, nextEngine, pc>>
    /\ UNCHANGED <<construction, applied, variant, configuration_data, db_configuration, engine,
                   disposals, caller, max_retries, response, engine_at_call,
                   outcome, tables, run_locals>>

\* if retries == max_retries: raise ConnectionError
RetriesExhausted == retries = max_retries

\* raise ConnectionError(f"PostgresHandler - Failed to connect after
\* multiple retries."): the message names no number, and the statement
\* stands after the except clause, where no exception is being handled
FailedToConnect == ErrorInfo(<<>>, <<>>)

\* the code after the loop, and the assignment in connect
DH_try_to_connect_exit ==
    /\ \/ pc = "after_loop"
       \/ pc = "try_to_connect" /\ ~LoopCondition
    /\ IF RetriesExhausted
       THEN /\ UNCHANGED engine
            /\ Returning([Outcome("connect", "ConnectionError", None, max_retries,
                                  attempts, engine_at_call, local_engine)
                          EXCEPT !.error = FailedToConnect])
       ELSE /\ engine' = local_engine
            /\ Return("connect", "ok", None)
    /\ UNCHANGED <<construction, applied, variant, configuration_data, db_configuration, nextEngine,
                   disposals>>

\* -------------------------- database_handler.py: is_the_connection_up
\* self.engine.connect() inside try/except Exception: with no engine the
\* attribute access throws, with an engine the environment decides
ProbeOutcomes(e) == IF e = NoEngine THEN {FALSE} ELSE {TRUE, FALSE}

BoolResult(b) == IF b THEN "True" ELSE "False"

DH_is_the_connection_up ==
    /\ variant = "database_handler"
    /\ pc = "idle"
    /\ \E up \in ProbeOutcomes(engine) :
         ReturnAtOnce("is_the_connection_up", BoolResult(up), None)
    /\ UNCHANGED <<construction, applied, variant, configuration_data, db_configuration, engine,
                   nextEngine, disposals>>

\* ------------------------------ database_handler.py: close_connection
\* Engine.dispose() returned: the pool of e is closed once more
Dispose(e) == [disposals EXCEPT ![e] = IF @ = "never" THEN "once" ELSE "again"]

DH_close_connection ==
    /\ variant = "database_handler"
    /\ pc = "idle"
    /\ \E up \in ProbeOutcomes(engine) :
        IF up
        THEN \/ /\ disposals' = Dispose(engine)
                /\ ReturnAtOnce("close_connection", "ok", "connection closed")
             \/ /\ UNCHANGED disposals            \* dispose() throws
                /\ ReturnAtOnce("close_connection", "ConnectionError", None)
        ELSE /\ UNCHANGED disposals
             /\ ReturnAtOnce("close_connection", "ok", "already closed")
    /\ UNCHANGED <<construction, applied, variant, configuration_data, db_configuration, engine,
                   nextEngine>>

\* ----------------------------------------------------- handler.py: setup
\* the body of setup; result is how it ends
SetupBody(result) ==
    \/ /\ ~AllFieldsPresent(ConfigOf(db_configuration))
       /\ result = "ValueError"
       /\ UNCHANGED <<engine, nextEngine>>
    \/ /\ AllFieldsPresent(ConfigOf(db_configuration))
       /\ result = "ok"                         \* create_engine returns
       /\ nextEngine <= MaxEngines
       /\ engine' = nextEngine
       /\ nextEngine' = nextEngine + 1
    \/ /\ AllFieldsPresent(ConfigOf(db_configuration))
       /\ result = "SystemError"                \* create_engine throws
       /\ UNCHANGED <<engine, nextEngine>>

SetupResults == {"ok", "ValueError", "SystemError"}

H_setup ==
    /\ variant = "handler"
    /\ pc = "idle"
    /\ \E result \in SetupResults :
         /\ SetupBody(result)
         /\ UNCHANGED <<pc, conn_locals, tables, run_locals>>
         /\ outcome' = Outcome("setup", result, None, 0,
                               IF result = "ValueError" THEN 0 ELSE 1, engine,
                               IF result = "ok" THEN engine' ELSE NoEngine)
    /\ UNCHANGED <<construction, applied, variant, configuration_data, db_configuration, disposals>>

\* ------------------------- handler.py: connect and is_the_connection_up
\* if self.engine is not None: self.setup()
SetupBeforeConnect == engine # NoEngine

\* the head of connect(max_retries = n), entered from method op
H_connect_head(op, n) ==
    \E result \in SetupResults \cup {"skipped"} :
      /\ IF SetupBeforeConnect
         THEN result # "skipped" /\ SetupBody(result)
         ELSE result = "skipped" /\ UNCHANGED <<engine, nextEngine>>
      /\ IF result \in {"ValueError", "SystemError"}
         THEN /\ UNCHANGED <<pc, conn_locals, tables, run_locals>>
              /\ outcome' = Outcome(op, result, None, n, 0, engine, NoEngine)
         ELSE /\ pc' = "connect_loop"
              /\ caller' = op
              /\ max_retries' = n
              /\ retries' = 0
              /\ response' = FALSE
              /\ attempts' = 0
              /\ engine_at_call' = engine
              /\ UNCHANGED <<local_engine, outcome, tables, run_locals>>

H_connect ==
    /\ variant = "handler"
    /\ pc = "idle"
    /\ \E n \in RetryChoices : H_connect_head("connect", n)
    /\ UNCHANGED <<construction, applied, variant, configuration_data, db_configuration, disposals>>

\* return self.connect(max_retries=1)
H_is_the_connection_up ==
    /\ variant = "handler"
    /\ pc = "idle"
    /\ H_connect_head("is_the_connection_up", 1)
    /\ UNCHANGED <<construction, applied, variant, configuration_data, db_configuration, disposals>>

\* one pass of the loop body of connect: self.engine.connect()
H_connect_attempt ==
    /\ pc = "connect_loop"
    /\ LoopCondition
    /\ attempts' = attempts + 1
    /\ \E up \in ProbeOutcomes(engine) :
        IF up
        THEN /\ response' = TRUE                \* break
             /\ pc' = "after_connect_loop"
             /\ UNCHANGED retries
        ELSE /\ retries' = retries + 1
             /\ UNCHANGED <<response, pc>>
    /\ UNCHANGED <<construction, applied, variant, configuration_data, db_configuration, engine,
                   nextEngine, disposals, caller, max_retries, local_engine,
                   engine_at_call, outcome, tables, run_locals>>

\* the code after the loop: log when exhausted, return response
H_connect_exit ==
    /\ \/ pc = "after_connect_loop"
       \/ pc = "connect_loop" /\ ~LoopCondition
    /\ Return(caller, BoolResult(response),
              IF RetriesExhausted THEN "failed to connect" ELSE None)
    /\ UNCHANGED <<construction, applied, variant, configuration_data, db_configuration, engine,
                   nextEngine, disposals>>

\* -------------------------------------------- handler.py: close_connection
H_close_connection ==
    /\ variant = "handler"
    /\ pc = "idle"
    /\ \/ /\ engine # NoEngine
          /\ disposals' = Dispose(engine)
          /\ ReturnAtOnce("close_connection", "ok", "connection closed")
       \/ /\ UNCHANGED disposals     \* None.dispose(), or dispose() throws
          /\ ReturnAtOnce("close_connection", "ConnectionError", None)
    /\ UNCHANGED <<construction, applied, variant, configuration_data, db_configuration, engine,
                   nextEngine>>

\* ------------------------------------------------- _files2dataframes
\* file.endswith(raw_files_extension), the extension being "." + ext
EndsWith(name, ext) == Len(name) >= 2 /\ name[Len(name)] = ext

\* [file for file in os.listdir(raw_files_path) if file.endswith(ext)]
\* os.listdir returns the entries in an arbitrary order, so the list is
\* the matching entries in any order
RawFileNames(dir, ext) ==
    LET matching == {f \in dir : EndsWith(f.name, ext)} IN
    {names \in [1..Cardinality(matching) -> matching] :
        \A i, j \in DOMAIN names : i # j => names[i] # names[j]}

\* a dict in insertion order: a sequence of items with distinct keys
Item(key, df) == [key |-> key, df |-> df]
Keys(d) == {d[i].key : i \in DOMAIN d}

\* dict.setdefault(key, df): the first value under a key stays
SetItemKeepFirst(d, key, df) ==
    IF key \in Keys(d) THEN d ELSE Append(d, Item(key, df))

\* d[key] = df
SetItem(d, key, df) ==
    IF key \in Keys(d)
    THEN [i \in DOMAIN d |-> IF d[i].key = key THEN Item(key, df) ELSE d[i]]
    ELSE Append(d, Item(key, df))

\* the for loop over raw_file_names: it ends normally with the dict, or a
\* read throws and the loop is left
RECURSIVE ReadFiles(_, _, _)
ReadFiles(names, ext, d) ==
    IF names = <<>> THEN [raised |-> FALSE, dict |-> d]
    ELSE LET f == Head(names) IN
         IF ext \notin {"csv", "json"}
         THEN ReadFiles(Tail(names), ext, d)               \* continue
         ELSE IF ~f.parses
         THEN [raised |-> TRUE, dict |-> d]
         ELSE ReadFiles(Tail(names), ext, SetItem(d, TableNameOf(f.name), f.df))

\* listed is FALSE when os.listdir throws; except Exception: {}
Files2Dataframes(listed, names, ext) ==
    LET r == ReadFiles(names, ext, <<>>) IN
    IF ~listed \/ r.raised THEN <<>> ELSE r.dict

\* ---------------------------------- handler.py: _preprocess_dataframes
\* read_csv / read_json return columns that already carry their inferred
\* dtype: infer_objects finds nothing to convert
InferObjects(df) == df

\* df[col].nunique(): the distinct values, NaN not counted
NUnique(df, col) ==
    Cardinality({df.rows[i][col] : i \in DOMAIN df.rows} \ {Null})

\* object columns with nunique() < 10 become category
CastLowCardinality(df) ==
    [df EXCEPT !.dtype =
        [c \in Columns |->
            IF df.dtype[c] = "object" /\ NUnique(df, c) < CategoryThreshold
            THEN "category" ELSE df.dtype[c]]]

RECURSIVE KeepFirst(_, _)
KeepFirst(rows, seen) ==
    IF rows = <<>> THEN <<>>
    ELSE IF Head(rows) \in seen
         THEN KeepFirst(Tail(rows), seen)
         ELSE <<Head(rows)>> \o KeepFirst(Tail(rows), seen \cup {Head(rows)})

\* df.drop_duplicates(): the first of every group of equal rows is kept
DropDuplicates(df) == [df EXCEPT !.rows = KeepFirst(df.rows, {})]

\* df[cols] = df[cols].fillna(value), cols = select_dtypes(include=dtypes)
FillNa(df, dtypes, value) ==
    [df EXCEPT !.rows =
        [i \in DOMAIN df.rows |->
            [c \in Columns |->
                IF df.dtype[c] \in dtypes /\ df.rows[i][c] = Null
                THEN <<value>> ELSE df.rows[i][c]]]]

\* df[cols].astype(str) on the object columns: a string is itself, a
\* missing value would read "nan"
AsTypeStr(df) ==
    [df EXCEPT !.rows =
        [i \in DOMAIN df.rows |->
            [c \in Columns |->
                IF df.dtype[c] = "object" /\ df.rows[i][c] = Null
                THEN <<"nan">> ELSE df.rows[i][c]]]]

PreprocessOne(df) ==
    AsTypeStr(
      FillNa(
        FillNa(DropDuplicates(CastLowCardinality(InferObjects(df))),
               {"float64", "int64"}, 0),
        {"object"}, "No Answer"))

PreprocessDataframes(d) ==
    [i \in DOMAIN d |-> Item(d[i].key, PreprocessOne(d[i].df))]

\* ----------------------------------------------------- files2tables
\* the discovered files, counted
Count(names, ext) ==
    [found |-> Len(names),
     readable |-> Cardinality({i \in DOMAIN names : names[i].parses}),
     unreadable |-> Cardinality({i \in DOMAIN names : ~names[i].parses}),
     supported |-> ext \in {"csv", "json"}]

RunOf(files, done) == [discovered |-> files, written |-> done]

ReturnRun ==
    /\ pc' = "idle"
    /\ discovered' = NoFiles
    /\ files_as_dataframes' = <<>>
    /\ written' = <<>>
    /\ UNCHANGED conn_locals

\* the frames the loop of files2tables iterates over
CleanDataframes(d) == IF variant = "handler" THEN PreprocessDataframes(d) ELSE d

\* the emptiness test left out
NoDataframesNeverRaised(d) == Len(d) < 0

\* len(...) == 0: raise ValueError
NoDataframes(d) == Len(d) = 0

\* files2tables once _files2dataframes has returned
Files2TablesBody(found, frames) ==
    LET clean == CleanDataframes(frames) IN
    IF NoDataframes(clean)
    THEN /\ outcome' = [Outcome("files2tables", "ValueError", None, 0, 0, engine, NoEngine)
                        EXCEPT !.run = RunOf(found, <<>>)]
         /\ UNCHANGED <<pc, run_locals>>
    ELSE /\ pc' = "to_sql"
         /\ discovered' = found
         /\ files_as_dataframes' = clean
         /\ written' = <<>>
         /\ UNCHANGED outcome

files2tables ==
    /\ pc = "idle"
    /\ UNCHANGED <<construction, applied, variant, configuration_data, db_configuration, engine,
                   nextEngine, disposals, conn_locals, tables>>
    /\ \/ Files2TablesBody(NoFiles, Files2Dataframes(FALSE, <<>>, "csv"))
       \/ \E dir \in Directories, ext \in Extensions :
            \E names \in RawFileNames(dir, ext) :
               Files2TablesBody(Count(names, ext), Files2Dataframes(TRUE, names, ext))

\* df.copy().to_sql(file, con=self.engine, if_exists="replace") returns
\* only with an engine; the environment decides whether it does
WriteOutcomes(e) == IF e = NoEngine THEN {FALSE} ELSE {TRUE, FALSE}

\* the table is dropped and created again with the rows of df
Replace(db, key, df) == [db EXCEPT ![key] = Present(df.rows)]

\* a write that throws undoes the whole run
FailedWriteRollsBack(db, key) == {[t \in TableNames |-> Absent]}

\* a write that throws leaves its own table as it was or dropped
FailedWrite(db, key) == {db, [db EXCEPT ![key] = Absent]}

\* one pass of the loop of files2tables
to_sql ==
    /\ pc = "to_sql"
    /\ files_as_dataframes # <<>>
    /\ LET item == Head(files_as_dataframes) IN
       \E ok \in WriteOutcomes(engine) :
        IF ok
        THEN /\ tables' = Replace(tables, item.key, item.df)
             /\ written' = Append(written, [key |-> item.key, rows |-> item.df.rows])
             /\ files_as_dataframes' = Tail(files_as_dataframes)
             /\ UNCHANGED <<pc, discovered, conn_locals, outcome>>
        ELSE /\ tables' \in FailedWrite(tables, item.key)   \* the exception leaves files2tables
             /\ outcome' = [Outcome("files2tables", "Exception", None, 0, 0, engine, NoEngine)
                            EXCEPT !.run = RunOf(discovered, written),
                                   !.failed = item.key,
                                   !.pending = Len(files_as_dataframes) - 1]
             /\ ReturnRun
    /\ UNCHANGED <<construction, applied, variant, configuration_data, db_configuration, engine,
                   nextEngine, disposals>>

\* the loop is over: files2tables returns
files2tables_return ==
    /\ pc = "to_sql"
    /\ files_as_dataframes = <<>>
    /\ UNCHANGED <<construction, applied, variant, configuration_data, db_configuration, engine,
                   nextEngine, disposals, tables>>
    /\ outcome' = [Outcome("files2tables", "ok", None, 0, 0, engine, NoEngine)
                   EXCEPT !.run = RunOf(discovered, written)]
    /\ ReturnRun

\* --------------------------------------- DatabaseHandlerFactory
Variants == {"database_handler", "handler"}
DbTypes == {"postgres", "mysql", "sqlite"}
ConfigPaths == {"config.json", "other.json"}
Loggers == {"app_logger", "test_logger"}

\* every kind taken for a supported one
SupportedAny(db_type) == db_type \in DbTypes

\* if db_type == "postgres"
Supported(db_type) == db_type = "postgres"

\* the arguments of get_database_handler; module is the file the factory
\* comes from: database_handler.py takes db_type and path_to_config,
\* handler.py takes db_config and reads db_config.get("DB_TYPE")
FactoryCalls ==
    {[module |-> m, db_type |-> k, path_to_config |-> p, db_config |-> c,
      app_logger |-> l] :
        m \in Variants, k \in DbTypes, p \in ConfigPaths \cup {None},
        c \in {Loaded(conf) : conf \in ConfigFiles} \cup {NoConfig},
        l \in Loggers \cup {None}}

\* no handler has been constructed
InitFactory ==
    /\ variant = None
    /\ configuration_data = NoConfig
    /\ db_configuration = NoConfig
    /\ engine = NoEngine
    /\ nextEngine = 1
    /\ disposals = [e \in EngineIds |-> "never"]
    /\ pc = "idle"
    /\ caller = None
    /\ max_retries = 0
    /\ retries = 0
    /\ local_engine = NoEngine
    /\ response = FALSE
    /\ attempts = 0
    /\ engine_at_call = NoEngine
    /\ tables = EmptyDb
    /\ discovered = NoFiles
    /\ files_as_dataframes = <<>>
    /\ written = <<>>
    /\ outcome = Outcome("__init__", "ok", None, 0, 0, NoEngine, NoEngine)
    /\ path2config = None
    /\ app_logger = None
    /\ given = None
    /\ returned = <<>>

\* get_database_handler, and PostgresHandler.__init__ with _logger_setup:
\* a logger passed in is kept; without one BasicLogger supplies the default
\* logger or throws (ValueError)
get_database_handler ==
    /\ variant = None
    /\ pc = "idle"
    /\ \E call \in FactoryCalls :
         /\ (call.module = "database_handler") = (call.path_to_config # None)
         /\ (call.module = "handler") = (call.db_config # NoConfig)
         /\ given' = call
         /\ \/ /\ Supported(call.db_type)
               /\ variant' = call.module
               /\ path2config' = call.path_to_config
               /\ db_configuration' = call.db_config
               /\ app_logger' = IF call.app_logger = None THEN DefaultLogger
                                 ELSE call.app_logger
               /\ outcome' = Outcome("get_database_handler", "ok", None, 0, 0,
                                     NoEngine, NoEngine)
            \/ /\ ~Supported(call.db_type) \/ call.app_logger = None
               /\ UNCHANGED <<variant, path2config, db_configuration, app_logger>>
               /\ outcome' = Outcome("get_database_handler", "ValueError", None,
                                     0, 0, NoEngine, NoEngine)
    /\ UNCHANGED <<configuration_data, engine, nextEngine, disposals, pc,
                   conn_locals, tables, run_locals, returned>>

\* ------------------------------- functions applied on their own
\* the cells a generated row is made of
NumberCells == {Null, <<0>>, <<1>>}
StringCells == {Null, <<"No Answer">>, <<"x">>}
RowSamples == {Row(n, s) : n \in NumberCells, s \in StringCells}

MaxRows == 3           \* rows of a generated DataFrame
MaxPasses == 2         \* successive _preprocess_dataframes calls

\* the DataFrame read_csv returns for rows: a numeric column is int64, or
\* float64 once a value is missing; a column of strings is object
InferredFrame(rows) ==
    Frame(IF \E i \in DOMAIN rows : rows[i]["n"] = Null THEN "float64" ELSE "int64",
          rows)

Frames ==
    {SmallFrame, CleanFrame, WideFrame}
      \cup {InferredFrame(rows) :
               rows \in {r \in UNION {[1..k -> RowSamples] : k \in 1..MaxRows} :
                            \E i \in DOMAIN r : r[i]["s"] # Null}}

\* a handler of handler.py, and a dict of one DataFrame to preprocess
InitPreprocess ==
    /\ Constructed
    /\ variant = "handler"
    /\ db_configuration = Loaded(FullConfig)
    /\ given \in {<<Item("a", df)>> : df \in Frames}
    /\ returned = <<>>

\* _preprocess_dataframes applied to the dict given, then to its own result
preprocess_dataframes ==
    /\ Len(returned) < MaxPasses
    /\ returned' = Append(returned,
                          PreprocessDataframes(IF returned = <<>> THEN given
                                               ELSE returned[Len(returned)]))
    /\ UNCHANGED <<construction, given, variant, configuration_data,
                   db_configuration, engine, nextEngine, disposals, pc,
                   conn_locals, tables, run_locals, outcome>>

\* a handler and the arguments of _files2dataframes
InitFiles2Dataframes ==
    /\ Constructed
    /\ db_configuration \in {NoConfig, Loaded(FullConfig)}
    /\ returned = <<>>
    /\ given \in {[raw_files_path |-> dir, raw_files_extension |-> ext] :
                     dir \in Directories, ext \in Extensions}

\* _files2dataframes applied: the list os.listdir gave, filtered, and the
\* dict returned
files2dataframes ==
    /\ returned = <<>>
    /\ \/ returned' = << [raw_file_names |-> <<>>,
                          dict |-> Files2Dataframes(FALSE, <<>>, given.raw_files_extension)] >>
       \/ \E names \in RawFileNames(given.raw_files_path, given.raw_files_extension) :
            returned' = << [raw_file_names |-> names,
                            dict |-> Files2Dataframes(TRUE, names, given.raw_files_extension)] >>
    /\ UNCHANGED <<construction, given, variant, configuration_data,
                   db_configuration, engine, nextEngine, disposals, pc,
                   conn_locals, tables, run_locals, outcome>>

\* ================================================================ claims
Idle(op) == pc = "idle" /\ outcome.op = op

\* a configuration with a field missing or empty
InvalidConfig(conf) == \E f \in Fields : conf[f] \in {None, ""}

\* C1: connect(max_retries = N), N >= 0, of database_handler.py: while every
\* create_engine call has failed the call count equals retries; the first
\* call that returns ends the loop; a connect whose calls all failed made
\* exactly N calls and raised ConnectionError; a connect whose call K
\* returned made exactly K <= N calls and stored the engine of call K.
C1_ExactAttempts ==
    /\ pc = "try_to_connect" => local_engine = NoEngine /\ attempts = retries
    /\ pc = "after_loop" =>
          /\ local_engine # NoEngine
          /\ attempts = retries + 1
          /\ attempts <= max_retries
    /\ (variant = "database_handler" /\ Idle("connect")
          /\ outcome.max_retries >= 0
          /\ outcome.result \in {"ok", "ConnectionError"}) =>
          IF outcome.created = NoEngine
          THEN /\ outcome.result = "ConnectionError"
               /\ outcome.attempts = outcome.max_retries
          ELSE /\ outcome.result = "ok"
               /\ outcome.attempts \in 1..outcome.max_retries
               /\ engine = outcome.created

\* a connect that succeeded on its second attempt
C1_Witness ==
    /\ variant = "database_handler" /\ Idle("connect")
    /\ outcome.result = "ok"
    /\ outcome.attempts = 2
    /\ engine = outcome.created

\* C2: with a configuration that has a field missing or empty, connect of
\* database_handler.py and setup of handler.py raise ValueError, call
\* create_engine not once, and leave self.engine as it was.
C2_ConfigErrorFirst ==
    /\ (variant = "database_handler" /\ pc \in {"try_to_connect", "after_loop"}) =>
          ~InvalidConfig(ConfigOf(configuration_data))
    /\ (variant = "database_handler" /\ Idle("connect")
          /\ configuration_data # NoConfig
          /\ InvalidConfig(ConfigOf(configuration_data))) =>
          /\ outcome.result = "ValueError"
          /\ outcome.attempts = 0
          /\ outcome.created = NoEngine
          /\ engine = outcome.engine_before
    /\ (variant = "handler" /\ Idle("setup")
          /\ InvalidConfig(ConfigOf(db_configuration))) =>
          /\ outcome.result = "ValueError"
          /\ outcome.attempts = 0
          /\ outcome.created = NoEngine
          /\ engine = outcome.engine_before

\* a connect refused for its configuration while an engine is stored
C2_Witness ==
    /\ variant = "database_handler" /\ Idle("connect")
    /\ configuration_data # NoConfig
    /\ InvalidConfig(ConfigOf(configuration_data))
    /\ outcome.result = "ValueError"
    /\ engine # NoEngine

\* no file of the run was read into a DataFrame
ZeroParsed(files) == ~files.supported \/ files.readable = 0

\* C3: a files2tables call that reads no file into a DataFrame never enters
\* the write loop: it raises ValueError and leaves every table as it was.
C3_NoDataNoTables ==
    [][ /\ (pc = "idle" /\ pc' = "to_sql") => ~ZeroParsed(discovered')
        /\ (pc = "idle" /\ pc' = "idle" /\ outcome' # outcome
              /\ outcome'.op = "files2tables"
              /\ ZeroParsed(outcome'.run.discovered)) =>
              /\ outcome'.result = "ValueError"
              /\ outcome'.run.written = <<>>
              /\ tables' = tables ]_vars

\* the no-data error over a database that holds a table
C3_Witness ==
    /\ Idle("files2tables")
    /\ ZeroParsed(outcome.run.discovered)
    /\ outcome.result = "ValueError"
    /\ tables # EmptyDb

\* C4 (as claimed): a run that discovered a file that reads and a file whose
\* read throws does not fail for lack of data, and writes a table unless a
\* write throws.
C4_ParseFailureIsolated ==
    (Idle("files2tables")
       /\ outcome.run.discovered.supported
       /\ outcome.run.discovered.readable >= 1
       /\ outcome.run.discovered.unreadable >= 1) =>
       /\ outcome.result # "ValueError"
       /\ outcome.failed = None => Len(outcome.run.written) >= 1

\* C5 (as claimed): in a run over two or more DataFrames a write that
\* throws does not end the run: the run returns normally and no item is
\* left unwritten.
C5_WriteFailureIsolated ==
    (Idle("files2tables") /\ outcome.failed # None
       /\ Len(outcome.run.written) + 1 + outcome.pending >= 2) =>
       /\ outcome.result = "ok"
       /\ outcome.pending = 0

\* C6: every table written earlier in a run holds exactly the rows written
\* to it, while the run goes on and after a write of the run has thrown.
C6_NoRollback ==
    /\ pc = "to_sql" =>
          \A i \in DOMAIN written :
              tables[written[i].key] = Present(written[i].rows)
    /\ (Idle("files2tables") /\ outcome.failed # None) =>
          \A i \in DOMAIN outcome.run.written :
              tables[outcome.run.written[i].key] = Present(outcome.run.written[i].rows)

\* a write threw after another table of the run was written
C6_Witness ==
    /\ Idle("files2tables")
    /\ outcome.failed # None
    /\ Len(outcome.run.written) >= 1
    /\ \A i \in DOMAIN outcome.run.written : outcome.run.written[i].key # outcome.failed

\* C7 (as claimed): close_connection of database_handler.py disposes an
\* engine only if it was never disposed before.
C7_DisposedOnce ==
    (variant = "database_handler" /\ Idle("close_connection")
       /\ outcome.log = "connection closed") =>
       disposals[engine] = "once"

\* C8 (as claimed): is_the_connection_up ends by returning a boolean, False
\* when no engine is stored, True only with an engine stored.
C8_ProbeNeverRaises ==
    Idle("is_the_connection_up") =>
       /\ outcome.result \in {"True", "False"}
       /\ outcome.engine_before = NoEngine => outcome.result = "False"
       /\ outcome.result = "True" => engine # NoEngine

\* C9 (as claimed): at most one engine the handler created is not disposed.
C9_AtMostOneAlive == Cardinality(Alive) <= 1

\* C10 (as claimed): a connect whose attempts all threw (it raised
\* ConnectionError, or returned False, after max_retries >= 1 attempts)
\* leaves self.engine as it was.
C10_FailedConnectKeepsEngine ==
    (Idle("connect") /\ outcome.result \in {"ConnectionError", "False"}
       /\ outcome.max_retries >= 1
       /\ outcome.attempts = outcome.max_retries) =>
       engine = outcome.engine_before

\* rows without a missing number and without two equal rows
NormalizedRows(rows) ==
    /\ \A i \in DOMAIN rows : rows[i]["n"] # Null
    /\ \A i, j \in DOMAIN rows : rows[i] = rows[j] => i = j

\* C11 (as claimed): every table a completed files2tables run of
\* database_handler.py wrote holds normalized rows: no two identical rows,
\* no missing value in the numeric column.
C11_TablesNormalized ==
    (variant = "database_handler" /\ Idle("files2tables")
       /\ outcome.result = "ok") =>
       \A i \in DOMAIN outcome.run.written :
           NormalizedRows(outcome.run.written[i].rows)

\* C12 (as claimed): _preprocess_dataframes applied to its own result
\* returns that result.
C12_PreprocessIdempotent ==
    Len(returned) >= 2 => returned[2] = returned[1]

\* C13 (as claimed): after _preprocess_dataframes no cell is missing: a
\* number that was missing is 0, a string that was missing is "No Answer".
C13_NoNullAfterPreprocess ==
    Len(returned) >= 1 =>
       \A k \in DOMAIN given :
          LET before == given[k].df.rows
              after == returned[1][k].df.rows IN
          /\ \A i \in DOMAIN after, c \in Columns : after[i][c] # Null
          /\ Len(after) = Len(before) =>
                \A i \in DOMAIN after :
                   /\ before[i]["n"] = Null => after[i]["n"] = <<0>>
                   /\ before[i]["s"] = Null => after[i]["s"] = <<"No Answer">>

\* C14 (as claimed): a files2tables run that returned wrote as many tables
\* as it read files.
C14_OneTablePerFile ==
    (variant = "database_handler" /\ Idle("files2tables")
       /\ outcome.result = "ok") =>
       /\ Len(outcome.run.written) = outcome.run.discovered.readable
       /\ Cardinality({outcome.run.written[i].key : i \in DOMAIN outcome.run.written})
             = outcome.run.discovered.readable

\* C15: a setup of database_handler.py that returns stores exactly the
\* mapping it read and opens no connection: it calls create_engine not
\* once, creates no engine, disposes none and leaves self.engine as it was.
C15_SetupStoresMapping ==
    [][ (variant = "database_handler" /\ pc = "idle" /\ pc' = "idle"
           /\ outcome' # outcome
           /\ outcome'.op = "setup" /\ outcome'.result = "ok") =>
           /\ outcome'.read # NoConfig
           /\ configuration_data' = outcome'.read
           /\ engine' = engine
           /\ nextEngine' = nextEngine
           /\ disposals' = disposals
           /\ tables' = tables ]_vars

\* setup has read an incomplete mapping while an engine is stored
C15_Witness ==
    /\ variant = "database_handler" /\ Idle("setup")
    /\ outcome.result = "ok"
    /\ configuration_data = outcome.read
    /\ InvalidConfig(ConfigOf(configuration_data))
    /\ engine # NoEngine

C17_CloseWithoutEngine ==
    (Idle("close_connection") /\ outcome.engine_before = NoEngine) =>
       /\ outcome.result = "ok"
       /\ outcome.log = "already closed"

\* C18 (as claimed): the ConnectionError of a connect whose attempts all
\* threw carries the retry count and the last error of the attempts.
C18_ErrorCarriesCountAndCause ==
    (variant = "database_handler" /\ Idle("connect")
       /\ outcome.result = "ConnectionError" /\ outcome.attempts >= 1) =>
       /\ outcome.error.count = <<outcome.max_retries>>
       /\ outcome.error.cause # <<>>

\* C19: in database_handler.py an engine is created or stored only on a
\* handler whose setup has completed, and a connect on a handler never set
\* up raises (AttributeError), calls create_engine not once and stores no
\* engine.
C19_EngineOnlyAfterSetup ==
    variant = "database_handler" =>
       /\ (engine # NoEngine \/ local_engine # NoEngine \/ nextEngine > 1
             \/ pc \in {"try_to_connect", "after_loop"}) =>
             configuration_data # NoConfig
       /\ (Idle("connect") /\ configuration_data = NoConfig) =>
             /\ outcome.result = "AttributeError"
             /\ outcome.attempts = 0
             /\ outcome.created = NoEngine
             /\ engine = NoEngine

\* connect has been called on a handler that was never set up
C19_Witness ==
    /\ variant = "database_handler" /\ Idle("connect")
    /\ configuration_data = NoConfig
    /\ outcome.result = "AttributeError"

\* the place in the list of the last file whose name begins with key
LastWithPrefix(names, key) ==
    CHOOSE j \in DOMAIN names :
       /\ Head(names[j].name) = key
       /\ \A k \in DOMAIN names : Head(names[k].name) = key => k <= j

\* C20: every key of the dict _files2dataframes returns is the part before
\* the first dot of the name of a file read; no key is there twice; under
\* a key stands the DataFrame of the last file read whose name begins with
\* it; and of a dict that is not empty every file read has its key.
C20_FirstDotLastWins ==
    returned # <<>> =>
       LET names == returned[1].raw_file_names
           d == returned[1].dict IN
       /\ \A i \in DOMAIN d : \E j \in DOMAIN names : d[i].key = Head(names[j].name)
       /\ \A i, k \in DOMAIN d : d[i].key = d[k].key => i = k
       /\ \A i \in DOMAIN d : d[i].df = names[LastWithPrefix(names, d[i].key)].df
       /\ d # <<>> => \A j \in DOMAIN names :
                         \E i \in DOMAIN d : d[i].key = Head(names[j].name)

\* a.b.csv read after a.csv: one key, the DataFrame of a.b.csv
C20_Witness ==
    /\ returned # <<>>
    /\ Len(returned[1].raw_file_names) = 2
    /\ returned[1].raw_file_names[2].name = <<"a", "b", "csv">>
    /\ Len(returned[1].dict) = 1
    /\ returned[1].dict[1] = Item("a", WideFrame)

\* C21 (as claimed): no DataFrame _preprocess_dataframes returns holds two
\* rows that are equal in every column.
C21_NoIdenticalRows ==
    Len(returned) >= 1 =>
       \A k \in DOMAIN returned[1] :
          LET rows == returned[1][k].df.rows IN
          \A i, j \in DOMAIN rows : rows[i] = rows[j] => i = j

\* C22 (as claimed): a connect of database_handler.py that returns, for any
\* max_retries, has an engine stored.
C22_ReturnedMeansConnected ==
    (variant = "database_handler" /\ Idle("connect")
       /\ outcome.result = "ok") =>
       engine # NoEngine

\* C23 (as claimed): after is_the_connection_up the engine stored is the
\* one stored before it, in both variants.
C23_ProbeKeepsEngine ==
    Idle("is_the_connection_up") => engine = outcome.engine_before

Next ==
    \/ DH_setup
    \/ DH_connect
    \/ DH_try_to_connect_attempt
    \/ DH_try_to_connect_exit
    \/ DH_is_the_connection_up
    \/ DH_close_connection
    \/ H_setup
    \/ H_connect
    \/ H_is_the_connection_up
    \/ H_connect_attempt
    \/ H_connect_exit
    \/ H_close_connection
    \/ files2tables
    \/ to_sql
    \/ files2tables_return

Spec == Init /\ [][Next]_vars

\* construction by the factory, then setup
NextFactory ==
    \/ get_database_handler
    \/ DH_setup
    \/ H_setup

SpecFactory == InitFactory /\ [][NextFactory]_vars

SpecPreprocess == InitPreprocess /\ [][preprocess_dataframes]_vars

SpecFiles2Dataframes == InitFiles2Dataframes /\ [][files2dataframes]_vars
====
